---- MODULE Spec2Model ----
(***************************************************************************)
(* Model of qontrol's optimisation loop (src/qontrol/optimize.py) and of   *)
(* the cost functionals it aggregates (src/optamiqs/cost.py).              *)
(*                                                                         *)
(* Spec      the epoch loop of optimize(), one action per statement group, *)
(*           with a KeyboardInterrupt that may arrive at any position.     *)
(* SpecCost  the pure functions: Cost construction and evaluate, loss.     *)
(***************************************************************************)
EXTENDS Integers, Sequences, FiniteSets

VARIABLES
    \* ---- optimize(): arguments and locals
    options,        \* OptimizerOptions: [epochs, verbose, all_costs]
    filepath,       \* <<>> for None, <<name>> for a destination
    initial,        \* the parameters passed in (never written)
    parameters,     \* local `parameters`
    opt_state,      \* local `opt_state`
    epoch,          \* position of the range(options.epochs) iterator
    cost_values,    \* local `cost_values` (<<>> while unbound)
    terminate,      \* local `terminate`   (<<>> while unbound)
    inflight,       \* frame of a running step(): <<>> or <<record>>
    pc,             \* position in optimize()
    exc,            \* exception in flight: "none" or "KeyboardInterrupt"
    returned,       \* <<>> until optimize returns, then <<value>>
    \* ---- the outside world
    output,         \* lines printed, in order
    saved,          \* calls made to save_optimization, in order
    \* ---- history (read by properties only)
    trace,          \* one record per step() call that returned
    intAt,          \* position at which the interrupt arrived, "" if none
    \* ---- pure-function scenarios (SpecCost)
    scen            \* [op, ...] the scenario and, once applied, its result

vars == <<options, filepath, initial, parameters, opt_state, epoch, cost_values,
          terminate, inflight, pc, exc, returned, output, saved, trace, intAt, scen>>

loopVars == <<options, filepath, initial, parameters, opt_state, epoch, cost_values,
              terminate, inflight, pc, exc, returned, output, saved, trace, intAt>>

\* ------------------------------------------------------------------ bounds

MaxEpochs == 3

\* Most initial states handed to ForbiddenStates, and most forbidden states
\* listed for one of them.
MaxStates == 3
MaxForbid == 3

\* Save times and prefactor values lie in -MaxTime..MaxTime.
MaxTime == 1

\* Cost multipliers tried: 0..MaxMultiplier.
MaxMultiplier == 2

\* Most costs handed to loss.
MaxCosts == 2

\* Values of options.epochs tried (0 included: range(0) is empty).
EpochChoices == 0..MaxEpochs

\* Parameters handed to optimize.
InitialParameters == {5}

\* Gradients jax.grad may produce for a step (0: the loss does not depend on
\* the parameters, as for a model returning a constant result).
Grads == {0, 1}

\* Per-cost values the costs may return in an epoch, in cost order.
CostValueChoices == {<<4, 0>>, <<1, 2>>}

\* Per-cost terminate flags the costs may return in an epoch.
FlagChoices == {<<a, b>> : a \in BOOLEAN, b \in BOOLEAN}

\* What costs(result, H) may return: a sequence of (cost_value, terminate).
CostOutcomes ==
    {[i \in 1..2 |-> <<cv[i], fl[i]>>] : cv \in CostValueChoices, fl \in FlagChoices}

\* ------------------------------------------------------------------ helpers

None == <<>>
Some(x) == <<x>>

\* A printed line. `epoch` and `costs` are the values interpolated into the
\* f-string, None when the line interpolates none.
Line(text, ep, costs) == [text |-> text, epoch |-> ep, costs |-> costs]

\* Python's all() and any() on a tuple of booleans.
all(flags) == \A i \in 1..Len(flags) : flags[i]
any(flags) == \E i \in 1..Len(flags) : flags[i]

\* A symbolic logarithm: jnp.log is not computable on integers, so the value
\* is kept as the term log(arg).
jnp_log(x) == [fn |-> "log", arg |-> x]

RECURSIVE tree_reduce_add(_)
\* jax.tree.reduce(jnp.add, cost_values): left fold of + over the leaves.
tree_reduce_add(vals) ==
    IF Len(vals) = 1 THEN vals[1]
    ELSE tree_reduce_add(SubSeq(vals, 1, Len(vals) - 1)) + vals[Len(vals)]

\* zip(*pairs): the tuple of first components and the tuple of second ones.
unzip(pairs) ==
    <<[i \in 1..Len(pairs) |-> pairs[i][1]], [i \in 1..Len(pairs) |-> pairs[i][2]]>>

\* Variant of aggregate: the last cost is left out of the total.
aggregate_dropping_last(pairs) ==
    LET cv == unzip(pairs)[1]
        total == IF Len(cv) = 1 THEN cv[1]
                 ELSE tree_reduce_add(SubSeq(cv, 1, Len(cv) - 1))
    IN  <<jnp_log(total), unzip(pairs)>>

\* loss(), lines 129-131: from the (cost_value, terminate) pairs to
\* (log of the summed cost, (cost_values, terminate)).
aggregate(pairs) ==
    LET cz == unzip(pairs)
        total_cost == tree_reduce_add(cz[1])
    IN  <<jnp_log(total_cost), cz>>

\* optimizer.init(parameters): the optimizer state counts the updates made.
optimizer_init(p) == 0

\* optimizer.update(grads, state) -> (updates, new state): a descent step.
optimizer_update(grads, state) == <<0 - grads, state + 1>>

\* optax.apply_updates(parameters, updates).
apply_updates(p, updates) == p + updates

\* Variant of step: the update is computed but not applied.
step_without_update(_parameters, _opt_state, grads, pairs) ==
    LET upd == optimizer_update(grads, _opt_state)
    IN  [parameters |-> _parameters, opt_state |-> upd[2],
         aux |-> aggregate(pairs)[2], grads |-> grads]

\* step(), lines 68-73, given what jax.grad(loss, has_aux=True) produced:
\* the gradient and loss's auxiliary output for the (cost, terminate) pairs.
step(_parameters, _opt_state, grads, pairs) ==
    LET upd == optimizer_update(grads, _opt_state)
    IN  [parameters |-> apply_updates(_parameters, upd[1]), opt_state |-> upd[2],
         aux |-> aggregate(pairs)[2], grads |-> grads]

\* ------------------------------------------------------------------ cost.py

\* Values that jnp.mean makes fractional are kept as <<numerator, denominator>>.
Rat(n, d) == <<n, d>>
RatEq(a, b) == a[1] * b[2] = b[1] * a[2]
RatScale(m, a) == <<m * a[1], a[2]>>

RECURSIVE SumSeq(_)
\* jnp.sum of a flat array.
SumSeq(xs) == IF xs = <<>> THEN 0 ELSE xs[1] + SumSeq(Tail(xs))

RECURSIVE MaxSeq(_)
\* jnp.max of a non-empty flat array.
MaxSeq(xs) ==
    IF Len(xs) = 1 THEN xs[1]
    ELSE LET m == MaxSeq(Tail(xs)) IN IF xs[1] > m THEN xs[1] ELSE m

\* jnp.zeros(shape) for a state of the given shape.
zeros(state_shape) == [d \in 1..state_shape |-> 0]

\* forbidden_states[state_idx][forbid_idx] (0-based in the source, 1-based
\* here). Past the end a Python list (or tuple, or NumPy array) raises
\* IndexError; a JAX array clamps the index to its last element.
getitem(container, forbid_list, forbid_idx) ==
    IF forbid_idx <= Len(forbid_list) THEN Some(forbid_list[forbid_idx])
    ELSE IF container = "jax" THEN Some(forbid_list[Len(forbid_list)])
    ELSE None

RECURSIVE fill(_, _, _, _)
\* Lines 68-70: the loop over arr_indices; stops at the first IndexError.
fill(forbid_array, arr_indices, forbidden_states, container) ==
    IF arr_indices = <<>> THEN [raised |-> "none", value |-> forbid_array]
    ELSE LET state_idx == arr_indices[1][1]
             forbid_idx == arr_indices[1][2]
             got == getitem(container, forbidden_states[state_idx], forbid_idx)
         IN  IF got = None THEN [raised |-> "IndexError", value |-> None]
             ELSE fill([forbid_array EXCEPT ![state_idx][forbid_idx] = got[1]],
                       Tail(arr_indices), forbidden_states, container)

\* ForbiddenStates.__init__, lines 56-71: the packed array, or the exception.
ForbiddenStates_init(forbidden_states, container) ==
    LET state_shape == Len(forbidden_states[1][1])
        num_states == Len(forbidden_states)
        num_forbid_per_state ==
            [s \in 1..num_states |-> Len(forbidden_states[s])]
        max_num_forbid == MaxSeq(num_forbid_per_state)
        arr_indices ==
            [k \in 1..(num_states * max_num_forbid) |->
                <<((k - 1) \div max_num_forbid) + 1, ((k - 1) % max_num_forbid) + 1>>]
        forbid_array ==
            [s \in 1..num_states |-> [f \in 1..max_num_forbid |-> zeros(state_shape)]]
    IN  fill(forbid_array, arr_indices, forbidden_states, container)

\* Inner product of two real state vectors (the "id" axes of the einsum).
dot(u, v) == SumSeq([d \in 1..Len(u) |-> u[d] * v[d]])

\* ForbiddenStates.evaluate, lines 73-80.
ForbiddenStates_evaluate(cost, result, H) ==
    LET S == Len(result.states)
        T == Len(result.states[1])
        F == Len(cost.forbidden_states[1])
        forbidden_ovlps ==
            [s \in 1..S |-> [t \in 1..T |-> [f \in 1..F |->
                dot(result.states[s][t], cost.forbidden_states[s][f])]]]
        total == SumSeq([s \in 1..S |-> SumSeq([t \in 1..T |-> SumSeq([f \in 1..F |->
                    forbidden_ovlps[s][t][f] * forbidden_ovlps[s][t][f]])])])
    IN  RatScale(cost.cost_multiplier, Rat(total, S * T * F))

\* IncoherentInfidelity.evaluate, lines 28-32. The fidelity function is an
\* outside collaborator: result.infid_incoherent is what it returns for the
\* final states and this cost's targets.
IncoherentInfidelity_evaluate(cost, result, H) ==
    Rat(cost.cost_multiplier * result.infid_incoherent, 1)

\* CoherentInfidelity.evaluate, lines 42-45: result.infid_coherent is the
\* tensor the fidelity function returns, averaged here.
CoherentInfidelity_evaluate(cost, result, H) ==
    RatScale(cost.cost_multiplier,
             Rat(SumSeq(result.infid_coherent), Len(result.infid_coherent)))

\* The lambdas handed to evaluate_controls (lines 112 and 118), by their text.
lambda_apply(func, x) ==
    CASE func = "x ** 2" -> x * x
      [] func = "x" -> x

\* _evaluate_at_tsave, lines 91-95: a term is [prefactor |-> None] or
\* [prefactor |-> <<f>>], f a function of time.
evaluate_at_tsave(_H, result, func) ==
    IF _H.prefactor # None
    THEN SumSeq([i \in 1..Len(result.tsave) |->
                    lambda_apply(func, _H.prefactor[1][result.tsave[i]])])
    ELSE 0

\* Control.evaluate_controls, lines 89-106. H is [summed |-> FALSE] with the
\* term's own prefactor, or [summed |-> TRUE, timearrays |-> <<terms>>].
evaluate_controls(cost, result, H, func) ==
    LET control_val ==
            IF H.summed
            THEN SumSeq([k \in 1..Len(H.timearrays) |->
                          evaluate_at_tsave(H.timearrays[k], result, func)])
            ELSE evaluate_at_tsave(H, result, func)
    IN  cost.cost_multiplier * control_val

\* ControlNorm.evaluate, lines 111-112.
ControlNorm_evaluate(cost, result, H) ==
    Rat(evaluate_controls(cost, result, H, "x ** 2"), 1)

\* Variant of ControlArea_evaluate: the norm's lambda is used.
ControlArea_evaluate_squared(cost, result, H) ==
    Rat(evaluate_controls(cost, result, H, "x ** 2"), 1)

\* ControlArea.evaluate, lines 117-118.
ControlArea_evaluate(cost, result, H) ==
    Rat(evaluate_controls(cost, result, H, "x"), 1)

\* CustumCost.evaluate, lines 128-129: cost.cost_fun is the value the held
\* function returns for (result, H).
CustumCost_evaluate(cost, result, H) == Rat(cost.cost_fun, 1)

\* Dispatch of cost.evaluate(result, H) on the class of the instance.
evaluate(cost, result, H) ==
    CASE cost.kind = "IncoherentInfidelity" -> IncoherentInfidelity_evaluate(cost, result, H)
      [] cost.kind = "CoherentInfidelity" -> CoherentInfidelity_evaluate(cost, result, H)
      [] cost.kind = "ForbiddenStates" -> ForbiddenStates_evaluate(cost, result, H)
      [] cost.kind = "ControlNorm" -> ControlNorm_evaluate(cost, result, H)
      [] cost.kind = "ControlArea" -> ControlArea_evaluate(cost, result, H)
      [] cost.kind = "CustumCost" -> CustumCost_evaluate(cost, result, H)

\* loss(), lines 120-131: one call of the model, then the aggregation of what
\* the costs return for its result. `pairs` is costs(result, H) for the
\* result of that call; model_calls lists the arguments of each model call.
loss(params, pairs) ==
    [value |-> aggregate(pairs)[1],
     aux |-> aggregate(pairs)[2],
     model_calls |-> <<params>>]

\* ------------------------------------------------------------------ scenarios for the pure functions

Times == (0 - MaxTime)..MaxTime

\* The forbidden state listed at (state_idx, forbid_idx): all distinct, none zero.
Ket(s, f) == <<s, f>>

\* A list of lists of forbidden states with the given lengths.
ForbiddenInput(lens) == [s \in 1..Len(lens) |-> [f \in 1..lens[s] |-> Ket(s, f)]]

LengthChoices == UNION {[1..S -> 1..MaxForbid] : S \in 1..MaxStates}

\* Save-time grids: strictly increasing sequences of times.
RECURSIVE Sorted(_)
Sorted(set) ==
    IF set = {} THEN <<>>
    ELSE LET m == CHOOSE x \in set : \A y \in set : x <= y
         IN  <<m>> \o Sorted(set \ {m})

Grids == {Sorted(g) : g \in (SUBSET Times) \ {{}}}

Prefactors == [Times -> Times]

\* A result as the costs read it.
Result(states, tsave, inc, coh) ==
    [states |-> states, tsave |-> tsave, infid_incoherent |-> inc, infid_coherent |-> coh]

BasisKets == {<<1, 0>>, <<0, 1>>}

\* Simulated states of two initial states at two save times.
StateChoices == [1..2 -> [1..2 -> BasisKets]]

SingleTerm(f) == [summed |-> FALSE, prefactor |-> Some(f), timearrays |-> <<>>]

\* A sum of a term with a prefactor and a constant term without one.
SummedTerms(f) ==
    [summed |-> TRUE, prefactor |-> None,
     timearrays |-> <<[prefactor |-> Some(f)], [prefactor |-> None]>>]

NoControl == [summed |-> FALSE, prefactor |-> None, timearrays |-> <<>>]

Cost(kind, m, forbidden, cost_fun) ==
    [kind |-> kind, cost_multiplier |-> m, forbidden_states |-> forbidden,
     cost_fun |-> cost_fun]

\* Scenario of ForbiddenStates.__init__.
InitScenarios ==
    {[op |-> "init", lens |-> lens, container |-> c, out |-> None] :
        lens \in LengthChoices, c \in {"list", "jax"}}

\* Scenarios of evaluate: a cost of each class, a result and a Hamiltonian.
EvaluateScenarios ==
    LET packed == ForbiddenStates_init(ForbiddenInput(<<2, 2>>), "list").value
        sc(kind, forb, fun, res, H) ==
            {[op |-> "evaluate", kind |-> kind, m |-> m, forbidden |-> forb,
              cost_fun |-> fun, result |-> res, H |-> H, out |-> None] :
                m \in 0..MaxMultiplier}
        states0 == [s \in 1..2 |-> [t \in 1..2 |-> <<1, 0>>]]
    IN  UNION (
          {sc("IncoherentInfidelity", None, 0, Result(states0, <<0>>, i, <<0>>), NoControl) :
              i \in {0, 1, 3}}
          \cup {sc("CoherentInfidelity", None, 0, Result(states0, <<0>>, 0, c), NoControl) :
              c \in {<<0, 0>>, <<1, 2>>}}
          \cup {sc("ForbiddenStates", packed, 0, Result(st, <<0, 1>>, 0, <<0>>), NoControl) :
              st \in StateChoices}
          \cup {sc(k, None, 0, Result(states0, g, 0, <<0>>), h) :
              k \in {"ControlNorm", "ControlArea"},
              g \in {<<0>>, Sorted(Times)},
              h \in {SingleTerm([t \in Times |-> t + 1]),
                     SummedTerms([t \in Times |-> t + 1]), NoControl}}
          \cup {sc("CustumCost", None, v, Result(states0, <<0>>, 0, <<0>>), NoControl) :
              v \in {0, 3}})

\* Scenarios of the control penalties on one term that has a prefactor.
ControlScenarios ==
    {[op |-> "controls", m |-> m, prefactor |-> f, tsave |-> g, out |-> None] :
        m \in 0..MaxMultiplier, f \in Prefactors, g \in Grids}

\* What a stub cost may return: (cost_value, terminate).
StubPairs == {0, 1, 4} \X BOOLEAN

LossScenarios ==
    {[op |-> "loss", parameters |-> p, pairs |-> ps, out |-> None] :
        p \in InitialParameters, ps \in UNION {[1..n -> StubPairs] : n \in 1..MaxCosts}}

\* The loop is not running in the scenarios.
LoopIdle ==
    /\ options = [epochs |-> 0, verbose |-> FALSE, all_costs |-> FALSE]
    /\ filepath = None
    /\ initial = 0
    /\ parameters = 0
    /\ opt_state = None
    /\ epoch = 0
    /\ cost_values = None
    /\ terminate = None
    /\ inflight = None
    /\ pc = "idle"
    /\ exc = "none"
    /\ returned = None
    /\ output = <<>>
    /\ saved = <<>>
    /\ trace = <<>>
    /\ intAt = ""

InitCost ==
    /\ LoopIdle
    /\ \/ scen \in InitScenarios
       \/ scen \in EvaluateScenarios
       \/ scen \in ControlScenarios
       \/ scen \in LossScenarios

\* ForbiddenStates(forbidden_states) is constructed.
Construct ==
    /\ scen.op = "init"
    /\ scen.out = None
    /\ scen' = [scen EXCEPT
                  !.out = Some(ForbiddenStates_init(ForbiddenInput(scen.lens),
                                                    scen.container))]
    /\ UNCHANGED loopVars

\* The same cost is evaluated with its multiplier and with multiplier 1.
Evaluate ==
    /\ scen.op = "evaluate"
    /\ scen.out = None
    /\ scen' = [scen EXCEPT
                  !.out = Some(
                     [scaled |-> evaluate(Cost(scen.kind, scen.m, scen.forbidden,
                                               scen.cost_fun), scen.result, scen.H),
                      base |-> evaluate(Cost(scen.kind, 1, scen.forbidden,
                                             scen.cost_fun), scen.result, scen.H)])]
    /\ UNCHANGED loopVars

\* ControlArea and ControlNorm are evaluated on the same term and save times.
EvaluateControls ==
    /\ scen.op = "controls"
    /\ scen.out = None
    /\ LET res == Result(<<>>, scen.tsave, 0, <<0>>)
           H == SingleTerm(scen.prefactor)
       IN  scen' = [scen EXCEPT
                      !.out = Some(
                         [area |-> ControlArea_evaluate(
                                      Cost("ControlArea", scen.m, None, 0), res, H),
                          norm |-> ControlNorm_evaluate(
                                      Cost("ControlNorm", scen.m, None, 0), res, H)])]
    /\ UNCHANGED loopVars

\* loss is called.
Loss ==
    /\ scen.op = "loss"
    /\ scen.out = None
    /\ scen' = [scen EXCEPT !.out = Some(loss(scen.parameters, scen.pairs))]
    /\ UNCHANGED loopVars

NextCost ==
    \/ Construct
    \/ Evaluate
    \/ EvaluateControls
    \/ Loss

SpecCost == InitCost /\ [][NextCost]_vars

\* ------------------------------------------------------------------ optimize()

\* Positions inside the try block (lines 77-114).
InTry == {"for", "step", "assign", "log", "save", "policy"}

\* Variant of early_termination: all() and any() exchanged.
early_termination_swapped(all_costs, flags) ==
    IF all_costs /\ any(flags) THEN "all"
    ELSE IF ~all_costs /\ all(flags) THEN "one"
    ELSE "no"

\* Lines 98 and 105: which early-termination branch is taken, if any.
early_termination(all_costs, flags) ==
    IF all_costs /\ all(flags) THEN "all"
    ELSE IF ~all_costs /\ any(flags) THEN "one"
    ELSE "no"

\* Variant of last_epoch: off by one.
last_epoch_off_by_one(e, epochs) == e = epochs

\* Line 112: epoch == options.epochs - 1.
last_epoch(e, epochs) == e = epochs - 1

InitLoop ==
    /\ options \in [epochs : EpochChoices, verbose : BOOLEAN, all_costs : BOOLEAN]
    /\ filepath \in {None, Some("run.h5py")}
    /\ initial \in InitialParameters
    /\ parameters = initial
    /\ opt_state = None
    /\ epoch = 0
    /\ cost_values = None
    /\ terminate = None
    /\ inflight = None
    /\ pc = "start"
    /\ exc = "none"
    /\ returned = None
    /\ output = <<>>
    /\ saved = <<>>
    /\ trace = <<>>
    /\ intAt = ""

\* Lines 56 and 75-76: optimizer.init, and the announcement of the destination.
Start ==
    /\ pc = "start"
    /\ opt_state' = Some(optimizer_init(parameters))
    /\ output' = IF options.verbose /\ filepath # None
                 THEN Append(output, Line("saving results to", None, None))
                 ELSE output
    /\ pc' = "for"
    /\ UNCHANGED <<options, filepath, initial, parameters, epoch, cost_values,
                   terminate, inflight, exc, returned, saved, trace, intAt, scen>>

\* Line 78: the range iterator yields the next epoch or is exhausted.
ForNext ==
    /\ pc = "for"
    /\ pc' = IF epoch < options.epochs THEN "step" ELSE "ret"
    /\ UNCHANGED <<options, filepath, initial, parameters, opt_state, epoch,
                   cost_values, terminate, inflight, exc, returned, output, saved,
                   trace, intAt, scen>>

\* Variant of StepCall: the step updates the caller's parameters in place.
StepCallInPlace ==
    /\ pc = "step"
    /\ \E g \in Grads, pairs \in CostOutcomes :
         /\ inflight' = Some(step(parameters, opt_state[1], g, pairs))
         /\ parameters' = step(parameters, opt_state[1], g, pairs).parameters
    /\ pc' = "assign"
    /\ UNCHANGED <<options, filepath, initial, opt_state, epoch, cost_values,
                   terminate, exc, returned, output, saved, trace, intAt, scen>>

\* Lines 80-82, the call: step() runs on its own arguments; its results live
\* in its frame until it returns.
StepCall ==
    /\ pc = "step"
    /\ \E g \in Grads, pairs \in CostOutcomes :
         inflight' = Some(step(parameters, opt_state[1], g, pairs))
    /\ pc' = "assign"
    /\ UNCHANGED <<options, filepath, initial, parameters, opt_state, epoch,
                   cost_values, terminate, exc, returned, output, saved, trace,
                   intAt, scen>>

\* Lines 80 and 83, the return: the results are bound to the locals.
StepAssign ==
    /\ pc = "assign"
    /\ parameters' = inflight[1].parameters
    /\ opt_state' = Some(inflight[1].opt_state)
    /\ cost_values' = inflight[1].aux[1]
    /\ terminate' = inflight[1].aux[2]
    /\ trace' = Append(trace, [grads |-> inflight[1].grads,
                               parameters |-> inflight[1].parameters,
                               cost_values |-> inflight[1].aux[1],
                               terminate |-> inflight[1].aux[2]])
    /\ inflight' = None
    /\ pc' = "log"
    /\ UNCHANGED <<options, filepath, initial, epoch, exc, returned, output, saved,
                   intAt, scen>>

\* Lines 84-88: the progress line (the elapsed time is left out).
Log ==
    /\ pc = "log"
    /\ output' = IF options.verbose
                 THEN Append(output, Line("epoch", Some(epoch), Some(cost_values)))
                 ELSE output
    /\ pc' = "save"
    /\ UNCHANGED <<options, filepath, initial, parameters, opt_state, epoch,
                   cost_values, terminate, inflight, exc, returned, saved, trace,
                   intAt, scen>>

\* Variant of Save: the last allowed epoch is not written.
SaveSkippingLast ==
    /\ pc = "save"
    /\ saved' = IF filepath # None /\ epoch < options.epochs - 1
                THEN Append(saved, [filepath |-> filepath[1],
                                    cost_values |-> cost_values,
                                    parameters |-> parameters,
                                    options |-> options,
                                    epoch |-> epoch])
                ELSE saved
    /\ pc' = "policy"
    /\ UNCHANGED <<options, filepath, initial, parameters, opt_state, epoch,
                   cost_values, terminate, inflight, exc, returned, output, trace,
                   intAt, scen>>

\* Lines 89-96: the checkpoint.
Save ==
    /\ pc = "save"
    /\ saved' = IF filepath # None
                THEN Append(saved, [filepath |-> filepath[1],
                                    cost_values |-> cost_values,
                                    parameters |-> parameters,
                                    options |-> options,
                                    epoch |-> epoch])
                ELSE saved
    /\ pc' = "policy"
    /\ UNCHANGED <<options, filepath, initial, parameters, opt_state, epoch,
                   cost_values, terminate, inflight, exc, returned, output, trace,
                   intAt, scen>>

\* Lines 97-114: early termination, else the last-epoch message, else on.
Policy ==
    /\ pc = "policy"
    /\ LET how == early_termination(options.all_costs, terminate) IN
       IF how = "all"
       THEN /\ output' = output \o
                 <<Line("target cost reached for all cost functions after",
                        Some(epoch), None),
                   Line("costs =", None, Some(cost_values))>>
            /\ pc' = "ret"
            /\ epoch' = epoch
       ELSE IF how = "one"
       THEN /\ output' = output \o
                 <<Line("target cost reached for one cost function after",
                        Some(epoch), None),
                   Line("costs =", None, Some(cost_values))>>
            /\ pc' = "ret"
            /\ epoch' = epoch
       ELSE /\ output' = IF last_epoch(epoch, options.epochs)
                         THEN output \o
                              <<Line("reached maximum number of allowed epochs",
                                     None, None),
                                Line("costs =", None, Some(cost_values))>>
                         ELSE output
            /\ pc' = "for"
            /\ epoch' = epoch + 1
    /\ UNCHANGED <<options, filepath, initial, parameters, opt_state, cost_values,
                   terminate, inflight, exc, returned, saved, trace, intAt, scen>>

\* A KeyboardInterrupt arrives (at most once per run). Inside the try block
\* control passes to the handler and a running step's frame is discarded;
\* outside it the exception leaves optimize.
Interrupt ==
    /\ pc \in InTry \cup {"start", "ret"}
    /\ intAt = ""
    /\ intAt' = pc
    /\ exc' = "KeyboardInterrupt"
    /\ inflight' = None
    /\ pc' = IF pc \in InTry THEN "except" ELSE "raised"
    /\ UNCHANGED <<options, filepath, initial, parameters, opt_state, epoch,
                   cost_values, terminate, returned, output, saved, trace, scen>>

\* Lines 115-116: the handler.
Except ==
    /\ pc = "except"
    /\ exc' = "none"
    /\ output' = Append(output, Line("terminated on keyboard interrupt", None, None))
    /\ pc' = "ret"
    /\ UNCHANGED <<options, filepath, initial, parameters, opt_state, epoch,
                   cost_values, terminate, inflight, returned, saved, trace, intAt,
                   scen>>

\* Line 117.
Return ==
    /\ pc = "ret"
    /\ returned' = Some(parameters)
    /\ pc' = "done"
    /\ UNCHANGED <<options, filepath, initial, parameters, opt_state, epoch,
                   cost_values, terminate, inflight, exc, output, saved, trace,
                   intAt, scen>>

Init ==
    /\ InitLoop
    /\ scen = [op |-> "none"]

Next ==
    \/ Start
    \/ ForNext
    \/ StepCall
    \/ StepAssign
    \/ Log
    \/ Save
    \/ Policy
    \/ Interrupt
    \/ Except
    \/ Return

Spec == Init /\ [][Next]_vars

\* ------------------------------------------------------------------ properties of optimize()

HasLine(text) == \E i \in 1..Len(output) : output[i].text = text

CountLines(text) == Cardinality({i \in 1..Len(output) : output[i].text = text})

ConvergedTexts == {"target cost reached for all cost functions after",
                   "target cost reached for one cost function after"}

\* A CONVERGED report, and the epoch it names.
ConvergedReported == \E i \in 1..Len(output) : output[i].text \in ConvergedTexts

ConvergedReportedAt(e) ==
    \E i \in 1..Len(output) :
        /\ output[i].text \in ConvergedTexts
        /\ output[i].epoch = Some(e)

ExhaustedReported == HasLine("reached maximum number of allowed epochs")

InterruptReported == HasLine("terminated on keyboard interrupt")

\* The termination policy as the specification words it.
PolicySatisfied(all_costs, flags) ==
    \/ all_costs /\ (\A i \in DOMAIN flags : flags[i] = TRUE)
    \/ ~all_costs /\ (\E i \in DOMAIN flags : flags[i] = TRUE)

\* The run came to its end through the loop, without an interrupt.
EndedUninterrupted == pc \in {"ret", "done"} /\ intAt = ""

\* Parameters produced by the last step that completed.
LastGood == IF trace = <<>> THEN initial ELSE trace[Len(trace)].parameters

NoEpochSatisfied ==
    \A i \in 1..Len(trace) : ~PolicySatisfied(options.all_costs, trace[i].terminate)

\* C1: after an epoch the loop stops with a CONVERGED report exactly when the
\* ANY/ALL policy holds of that epoch's terminate flags; otherwise it goes on
\* to the next epoch while one remains; no step runs after a stop.
C1_StopExactlyWhenPolicy ==
    /\ \A i \in 1..(Len(trace) - 1) :
          ~PolicySatisfied(options.all_costs, trace[i].terminate)
    /\ (EndedUninterrupted /\ trace # <<>>) =>
          (ConvergedReportedAt(Len(trace) - 1)
             <=> PolicySatisfied(options.all_costs, trace[Len(trace)].terminate))
    /\ ConvergedReported =>
          /\ pc \in {"ret", "done", "raised"}
          /\ ConvergedReportedAt(Len(trace) - 1)
          /\ PolicySatisfied(options.all_costs, terminate)
          /\ HasLine("target cost reached for all cost functions after")
               <=> options.all_costs
    /\ (EndedUninterrupted /\ ~ConvergedReported) => Len(trace) = options.epochs

\* C1 witness: with all_costs flags [True, False] let the loop go on, and the
\* next epoch's flags stopped it.
C1_Witness ==
    /\ pc = "done"
    /\ options.all_costs
    /\ Len(trace) = 2
    /\ trace[1].terminate = <<TRUE, FALSE>>
    /\ ConvergedReportedAt(1)
    /\ options.epochs > 2

\* C2: an interrupt arriving anywhere in the epoch loop is caught: optimize
\* does not raise, prints the interruption message and returns the parameters
\* of the last completed step (the initial ones if none completed).
C2_InterruptReturnsLastGood ==
    intAt \in InTry =>
        /\ pc \in {"except", "ret", "done"}
        /\ pc \in {"ret", "done"} =>
              /\ exc = "none"
              /\ output # <<>>
              /\ output[Len(output)].text = "terminated on keyboard interrupt"
              /\ parameters = LastGood
        /\ pc = "done" => returned = Some(LastGood)

\* C2 witness: interrupted in the middle of the third step, after two steps
\* that moved the parameters.
C2_Witness ==
    /\ pc = "done"
    /\ intAt = "assign"
    /\ Len(trace) = 2
    /\ trace[1].parameters # initial
    /\ trace[2].parameters # trace[1].parameters
    /\ returned = Some(trace[2].parameters)

\* The costs of epoch 0 satisfy the policy and no interrupt arrived.
ConvergesAtEpoch0 ==
    /\ pc = "done"
    /\ intAt = ""
    /\ trace # <<>>
    /\ PolicySatisfied(options.all_costs, trace[1].terminate)

\* C3 as stated: converging at epoch 0 returns the parameters passed in.
C3_ReturnsInitial ==
    ConvergesAtEpoch0 => (ConvergedReportedAt(0) /\ returned = Some(initial))

\* C3 as amended: converging at epoch 0 is reported at epoch 0 and returns
\* the initial parameters with the update of epoch 0 applied; these are the
\* initial parameters when the gradient of epoch 0 is zero.
C3_ReturnsOnceUpdated ==
    ConvergesAtEpoch0 =>
        /\ ConvergedReportedAt(0)
        /\ Len(trace) = 1
        /\ returned = Some(apply_updates(initial,
                optimizer_update(trace[1].grads, optimizer_init(initial))[1]))
        /\ trace[1].grads = 0 => returned = Some(initial)

\* C3 witness: converged at epoch 0 of a run allowed more epochs, with a zero
\* gradient (a model whose result does not depend on the parameters).
C3_Witness ==
    /\ ConvergesAtEpoch0
    /\ options.epochs = MaxEpochs
    /\ trace[1].grads = 0
    /\ returned = Some(initial)

\* C4: when no epoch satisfies the policy the loop runs options.epochs steps
\* and reports EXHAUSTED once, at the epoch with index epochs - 1; EXHAUSTED
\* and CONVERGED are never both reported.
C4_ExhaustedOnlyAtLastEpoch ==
    /\ (EndedUninterrupted /\ NoEpochSatisfied) =>
          /\ Len(trace) = options.epochs
          /\ options.epochs >= 1 =>
                CountLines("reached maximum number of allowed epochs") = 1
    /\ ExhaustedReported =>
          /\ CountLines("reached maximum number of allowed epochs") = 1
          /\ Len(trace) = options.epochs
          /\ epoch = options.epochs
          /\ NoEpochSatisfied
          /\ ~ConvergedReported
    /\ Len(trace) <= options.epochs

\* C4 witness: a run of several epochs, none converging, that was reported
\* exhausted.
C4_Witness ==
    /\ pc = "done"
    /\ intAt = ""
    /\ options.epochs >= 2
    /\ Len(trace) = options.epochs
    /\ ExhaustedReported

\* C5: every return of optimize is preceded by a summary with the reason for
\* stopping, the epoch count and the final per-cost values.
C5_SummaryBeforeReturn ==
    pc = "done" =>
        /\ ConvergedReported \/ ExhaustedReported \/ InterruptReported
        /\ \E i \in 1..Len(output) :
              /\ output[i].text \in ConvergedTexts
                    \cup {"reached maximum number of allowed epochs",
                          "terminated on keyboard interrupt"}
              /\ output[i].epoch # None
        /\ \E i \in 1..Len(output) :
              /\ output[i].text = "costs ="
              /\ output[i].costs = Some(cost_values)

Applied(op) == scen.op = op /\ scen.out # None

\* C6: constructing ForbiddenStates from lists of lengths 1..F_max succeeds
\* and packs them into an S x F_max array whose slot (s, f) holds the f-th
\* forbidden state of initial state s, and the zero state past the list's end.
C6_RaggedPackedWithZeros ==
    Applied("init") =>
        LET made == scen.out[1]
            S == Len(scen.lens)
            F_max == MaxSeq(scen.lens)
        IN  /\ made.raised = "none"
            /\ Len(made.value) = S
            /\ \A s \in 1..S :
                  /\ Len(made.value[s]) = F_max
                  /\ \A f \in 1..F_max :
                        made.value[s][f] =
                            IF f <= scen.lens[s] THEN Ket(s, f) ELSE <<0, 0>>

\* C7: for every cost class and multiplier m >= 0, evaluate with multiplier m
\* returns m times what evaluate with multiplier 1 returns.
C7_LinearInMultiplier ==
    Applied("evaluate") =>
        RatEq(scen.out[1].scaled, RatScale(scen.m, scen.out[1].base))

\* C9: loss calls the model once and returns log(sum of the cost values) with
\* the auxiliary (cost_values, terminate), one entry per cost, in cost order,
\* the flags unreduced.
C9_LossIsLogOfSum ==
    Applied("loss") =>
        LET got == scen.out[1]
            n == Len(scen.pairs)
        IN  /\ got.value = [fn |-> "log",
                            arg |-> SumSeq([i \in 1..n |-> scen.pairs[i][1]])]
            /\ Len(got.model_calls) = 1
            /\ got.model_calls[1] = scen.parameters
            /\ Len(got.aux) = 2
            /\ Len(got.aux[1]) = n
            /\ Len(got.aux[2]) = n
            /\ \A i \in 1..n :
                  /\ got.aux[1][i] = scen.pairs[i][1]
                  /\ got.aux[2][i] = scen.pairs[i][2]

\* C9 witness: costs [4, 0] with flags [True, False] give log(4).
C9_Witness ==
    /\ Applied("loss")
    /\ scen.pairs = <<<<4, TRUE>>, <<0, FALSE>>>>
    /\ scen.out[1].value = [fn |-> "log", arg |-> 4]
    /\ scen.out[1].aux = <<<<4, 0>>, <<TRUE, FALSE>>>>

Odd(f) == \A t \in Times : f[0 - t] = 0 - f[t]

Symmetric(grid) ==
    {grid[i] : i \in 1..Len(grid)} = {0 - grid[i] : i \in 1..Len(grid)}

\* C10: on a term with a prefactor ControlArea is the (multiplied) sum of the
\* prefactor over the save times, hence 0 for an odd prefactor on a grid
\* symmetric about zero; ControlNorm is the (multiplied) sum of its squares,
\* hence positive when the prefactor is nonzero at some save time and the
\* multiplier is positive.
C10_AreaCancelsNormDoesNot ==
    Applied("controls") =>
        LET f == scen.prefactor
            grid == scen.tsave
            sampled == [i \in 1..Len(grid) |-> f[grid[i]]]
            area == scen.out[1].area
            norm == scen.out[1].norm
        IN  /\ area = <<scen.m * SumSeq(sampled), 1>>
            /\ (Odd(f) /\ Symmetric(grid)) => area[1] = 0
            /\ norm = <<scen.m * SumSeq([i \in 1..Len(grid) |-> sampled[i] * sampled[i]]), 1>>
            /\ (scen.m > 0 /\ \E i \in 1..Len(grid) : sampled[i] # 0) => norm[1] > 0

\* C10 witness: the odd prefactor t on the grid -MaxTime..MaxTime: the area
\* cancels, the norm does not.
C10_Witness ==
    /\ Applied("controls")
    /\ scen.prefactor = [t \in Times |-> t]
    /\ scen.tsave = Sorted(Times)
    /\ scen.m = 1
    /\ scen.out[1].area[1] = 0
    /\ scen.out[1].norm[1] > 0

====
